---- MODULE Spec2Model ----
(***************************************************************************)
(* shopaudit-lite: the audit engine auditUrl (lib/auditor, v2) as a state  *)
(* machine.  One invocation of auditUrl is followed from the call to the   *)
(* settled promise; the three awaits (main page, /robots.txt,              *)
(* /sitemap.xml) are the only points where the function yields, so each    *)
(* action is the synchronous run between two awaits.                       *)
(*                                                                         *)
(* Strings are tuples of one-character strings.  A fetched document is     *)
(* the record of what the cheerio queries of the battery return for it.    *)
(*                                                                         *)
(* net is the network the audit runs against: what each of its fetches     *)
(* will settle with.  thrown records the place of the exception the outer  *)
(* handler caught.  prior is used only where the aggregator is studied on  *)
(* its own: the finding list before the last change made to it.  previous  *)
(* is used only where auditUrl is called a second time: the url and the    *)
(* report of the first call.  suspended is used only where two calls are   *)
(* in progress at once: the locals of the call that is not running.  http  *)
(* is used only where the POST handler of /api/audit calls auditUrl: the   *)
(* request it received and the response it has sent.                       *)
(***************************************************************************)
EXTENDS Integers, Sequences, FiniteSets, TLC

VARIABLES pc, input, url, net, response, robotsRes, smRes, checks, meta,
          requests, thrown, outcome, report, prior, previous, suspended,
          http

vars == <<pc, input, url, net, response, robotsRes, smRes, checks, meta,
          requests, thrown, outcome, report, prior, previous, suspended,
          http>>

(***************************************************************************)
(* Bounds of the model.                                                    *)
(***************************************************************************)
\* how many properties of the network an audit runs against differ from a
\* base network
MaxDeviations == 1
\* longest finding list handed to the aggregator on its own
MaxFindings == 16

(***************************************************************************)
(* Values.                                                                 *)
(***************************************************************************)
Null == <<>>
Some(v) == <<v>>

Severities == {"critical", "warning", "passed", "info"}

Categories == <<"meta", "content", "images", "technical", "social", "performance">>

Finding(id, category, status, details) ==
  [id |-> id, category |-> category, status |-> status, details |-> details]

DefaultMeta ==
  [title |-> Null, description |-> Null, ogImage |-> Null, favicon |-> Null,
   responseTimeMs |-> 0, htmlSizeKb |-> 0, isShopify |-> FALSE]

\* Math.round of the non-negative rational num / den
MathRound(num, den) == (2 * num + den) \div (2 * den)

Min(a, b) == IF a < b THEN a ELSE b

StartsWith(s, prefix) ==
  Len(s) >= Len(prefix) /\ SubSeq(s, 1, Len(prefix)) = prefix

HTTP == <<"h", "t", "t", "p">>
HTTP_SCHEME == <<"h", "t", "t", "p", ":", "/", "/">>
HTTPS_SCHEME == <<"h", "t", "t", "p", "s", ":", "/", "/">>

Letters == {"a", "c", "h", "p", "s", "t"}

\* the host of an http(s) URL: what follows the scheme, up to the first '/'
HostOf(u, scheme) ==
  LET rest == SubSeq(u, Len(scheme) + 1, Len(u))
      slashes == {i \in 1..Len(rest) : rest[i] = "/"}
  IN IF slashes = {} THEN rest
     ELSE SubSeq(rest, 1, (CHOOSE i \in slashes : \A j \in slashes : i <= j) - 1)

\* new URL(path, base): the base has to be an absolute URL, and an http(s)
\* URL needs a host, which cannot hold a space
ParsesAsUrl(u) ==
  /\ \E i \in 2..Len(u) : u[i] = ":" /\ \A j \in 1..(i - 1) : u[j] \in Letters
  /\ \A scheme \in {HTTP_SCHEME, HTTPS_SCHEME} :
       StartsWith(u, scheme) =>
         /\ Len(u) > Len(scheme)
         /\ \A i \in 1..Len(HostOf(u, scheme)) : HostOf(u, scheme)[i] # " "

\* the strings auditUrl is called with
Urls ==
  { <<>>,
    <<"a", ".", "c", "a">>,
    <<"h", "t", "t", "p", ".", "c", "a", "t">>,
    HTTP_SCHEME \o <<"a", ".", "c", "a">>,
    HTTPS_SCHEME \o <<"a", ".", "c", "a">> }

(***************************************************************************)
(* gradeFromScore                                                          *)
(***************************************************************************)
gradeFromScore_noAPlus(score) ==
  IF score >= 80 THEN "A"
  ELSE IF score >= 70 THEN "B"
  ELSE IF score >= 60 THEN "C"
  ELSE IF score >= 50 THEN "D"
  ELSE "F"

gradeFromScore(score) ==
  IF score >= 90 THEN "A+"
  ELSE IF score >= 80 THEN "A"
  ELSE IF score >= 70 THEN "B"
  ELSE IF score >= 60 THEN "C"
  ELSE IF score >= 50 THEN "D"
  ELSE "F"

(***************************************************************************)
(* Fetched documents.  A response of the main fetch has the fields          *)
(*   isString   response.data is a string (axios hands a JSON body over    *)
(*              parsed, as an object or a number)                          *)
(*   elapsed    Date.now() - startTime when the fetch resolved             *)
(*   bytes      Buffer.byteLength(response.data, 'utf8')                   *)
(*   title      length of $('title').text().trim()                         *)
(*   description length of the trimmed description content, 0 when absent  *)
(*   headings   levels of h1..h6 in document order                         *)
(*   words      number of non-empty words of the body text                 *)
(*   images     the img elements in document order: alt (a non-blank alt), *)
(*              lazy (loading="lazy")                                      *)
(*   jsonLd     the JSON-LD script blocks in document order, each by what  *)
(*              JSON.parse and the type lookup do with it                  *)
(*   robotsMeta the lower-cased robots meta content                        *)
(*   the other fields: whether the queried attribute is present            *)
(***************************************************************************)
Img(alt, lazy) == [alt |-> alt, lazy |-> lazy]

\* n images, the first `missing` without alt, the last `lazy` lazy-loaded
Images(n, missing, lazy) ==
  [i \in 1..n |-> Img(i > missing, i > n - lazy)]

\* n images, every second one (the 1st, 3rd, ...) without alt
EveryOther(n) == [i \in 1..n |-> Img(i % 2 = 0, FALSE)]

\* "typed": an object with a string @type; "untyped": an object with neither
\* @type nor @graph; "graph": an object with an @graph array; "invalid":
\* JSON.parse throws; "null": parses to null, so reading data['@type']
\* throws; "unprintable": @type is an object whose toString and valueOf are
\* not callable, such as {"@type": {"toString": 0, "valueOf": 0}}
JsonLdKinds == {"typed", "untyped", "graph", "invalid", "null", "unprintable"}

\* what an auxiliary fetch settles with: the request fails (network error,
\* timeout), or any status is handed over (validateStatus: () => true) with a
\* body that is a string or, for a JSON body, not a string
AuxFailed == [failed |-> TRUE, status |-> 0, isString |-> FALSE, marks |-> {}]
AuxResponse(status, isString, marks) ==
  [failed |-> FALSE, status |-> status, isString |-> isString, marks |-> marks]

\* marks: the substrings the checks look for that the body contains
RobotsOutcomes ==
  {AuxFailed} \cup
  {AuxResponse(st, TRUE, m) : st \in {200, 404}, m \in {{}, {"user-agent"}}} \cup
  {AuxResponse(st, FALSE, {}) : st \in {200, 404}}

SitemapOutcomes ==
  {AuxFailed} \cup
  {AuxResponse(st, TRUE, m) :
     st \in {200, 404}, m \in {{}, {"<urlset"}, {"<sitemapindex"}}} \cup
  {AuxResponse(st, FALSE, {}) : st \in {200, 404}}

\* The network as one audit finds it: whether the main fetch fails, the
\* response it resolves with otherwise (the fields above), and what the two
\* auxiliary fetches settle with.
GoodSite ==
  [isString |-> TRUE, elapsed |-> 120, bytes |-> 20480, shopify |-> TRUE,
   title |-> 45, description |-> 140, canonical |-> TRUE, lang |-> TRUE,
   headings |-> <<1, 2, 3>>, words |-> 300, images |-> Images(6, 0, 1),
   viewport |-> TRUE, favicon |-> TRUE, jsonLd |-> <<"typed">>,
   robotsMeta |-> "index", ogTitle |-> TRUE, ogImage |-> TRUE,
   ogDesc |-> TRUE, twitterCard |-> TRUE,
   mainFails |-> FALSE, robots |-> AuxResponse(200, TRUE, {"user-agent"}),
   sitemap |-> AuxResponse(200, TRUE, {"<urlset"})]

BareSite ==
  [isString |-> TRUE, elapsed |-> 3001, bytes |-> 100, shopify |-> FALSE,
   title |-> 0, description |-> 0, canonical |-> FALSE, lang |-> FALSE,
   headings |-> <<>>, words |-> 0, images |-> <<>>,
   viewport |-> FALSE, favicon |-> FALSE, jsonLd |-> <<>>,
   robotsMeta |-> "absent", ogTitle |-> FALSE, ogImage |-> FALSE,
   ogDesc |-> FALSE, twitterCard |-> FALSE,
   mainFails |-> FALSE, robots |-> AuxFailed, sitemap |-> AuxFailed]

BaseSites == {GoodSite, BareSite}

SiteFields == DOMAIN GoodSite

FieldValues(f) ==
  CASE f = "elapsed" -> {0, 120, 1500, 1501, 3000, 3001}
    [] f = "bytes" -> {100, 20480, 512511, 512512}
    [] f = "title" -> {0, 29, 30, 45, 60, 61}
    [] f = "description" -> {0, 119, 120, 140, 160, 161}
    [] f = "headings" ->
         {<<>>, <<1>>, <<1, 1>>, <<1, 2, 3>>, <<1, 2, 4>>, <<2, 3>>, <<3, 1, 2>>}
    [] f = "words" -> {0, 299, 300}
    [] f = "images" ->
         {Images(0, 0, 0), Images(1, 1, 0), Images(5, 0, 0), Images(6, 0, 0),
          Images(6, 0, 1), Images(6, 5, 0), Images(6, 6, 6), Images(10, 6, 0),
          EveryOther(12)}
    [] f = "jsonLd" ->
         {<<>>, <<"typed">>, <<"untyped">>, <<"graph">>, <<"invalid">>,
          <<"null">>, <<"unprintable">>, <<"invalid", "typed">>}
    [] f = "robotsMeta" -> {"absent", "index", "noindex", "nofollow"}
    [] f = "robots" -> RobotsOutcomes
    [] f = "sitemap" -> SitemapOutcomes
    [] OTHER -> BOOLEAN

\* the networks that differ from r in at most one field
Deviate(r) ==
  {r} \cup UNION {{[r EXCEPT ![f] = v] : v \in FieldValues(f)} : f \in SiteFields}

RECURSIVE Within(_)
Within(k) ==
  IF k = 0 THEN BaseSites ELSE UNION {Deviate(r) : r \in Within(k - 1)}

\* the networks an audit runs against
Networks == Within(MaxDeviations)

(***************************************************************************)
(* The check battery.  Each check is the finding it pushes for a document; *)
(* details holds one token per entry of the details array (<<>> when the   *)
(* finding has none).                                                      *)
(***************************************************************************)
CheckTitle_sixtyIsLong(doc) ==
  IF doc.title = 0 THEN Finding("meta-title", "meta", "critical", <<>>)
  ELSE IF doc.title < 30 THEN Finding("meta-title", "meta", "warning", <<"title">>)
  ELSE IF doc.title >= 60 THEN Finding("meta-title", "meta", "warning", <<"title">>)
  ELSE Finding("meta-title", "meta", "passed", <<>>)

\* 1. Title
CheckTitle(doc) ==
  IF doc.title = 0 THEN Finding("meta-title", "meta", "critical", <<>>)
  ELSE IF doc.title < 30 THEN Finding("meta-title", "meta", "warning", <<"title">>)
  ELSE IF doc.title > 60 THEN Finding("meta-title", "meta", "warning", <<"title">>)
  ELSE Finding("meta-title", "meta", "passed", <<>>)

\* 2. Meta Description
CheckDescription(doc) ==
  IF doc.description = 0 THEN Finding("meta-desc", "meta", "critical", <<>>)
  ELSE IF doc.description < 120 THEN Finding("meta-desc", "meta", "warning", <<>>)
  ELSE IF doc.description > 160 THEN Finding("meta-desc", "meta", "warning", <<>>)
  ELSE Finding("meta-desc", "meta", "passed", <<>>)

\* 3. Canonical URL
CheckCanonical(doc) ==
  IF ~doc.canonical THEN Finding("canonical", "meta", "warning", <<>>)
  ELSE Finding("canonical", "meta", "passed", <<>>)

\* 4. Language attribute
CheckLang(doc) ==
  IF ~doc.lang THEN Finding("lang", "meta", "warning", <<>>)
  ELSE Finding("lang", "meta", "passed", <<>>)

\* 5. H1 Heading
H1s(doc) == SelectSeq(doc.headings, LAMBDA l : l = 1)

CheckH1_firstDetailOnly(doc) ==
  IF Len(H1s(doc)) = 0 THEN Finding("h1", "content", "critical", <<>>)
  ELSE IF Len(H1s(doc)) > 1
    THEN Finding("h1", "content", "warning", <<"h1">>)
  ELSE Finding("h1", "content", "passed", <<>>)

CheckH1(doc) ==
  IF Len(H1s(doc)) = 0 THEN Finding("h1", "content", "critical", <<>>)
  ELSE IF Len(H1s(doc)) > 1
    THEN Finding("h1", "content", "warning", [i \in 1..Len(H1s(doc)) |-> "h1"])
  ELSE Finding("h1", "content", "passed", <<>>)

HierarchyBroken_anyJump(headingLevels) ==
  \E i \in 2..Len(headingLevels) :
    \/ headingLevels[i] - headingLevels[i - 1] > 1
    \/ headingLevels[i - 1] - headingLevels[i] > 1

\* 6. Heading Hierarchy
HierarchyBroken(headingLevels) ==
  \E i \in 2..Len(headingLevels) : headingLevels[i] - headingLevels[i - 1] > 1

CheckHeadingHierarchy(doc) ==
  IF Len(doc.headings) = 0
    THEN Finding("heading-hierarchy", "content", "warning", <<>>)
  ELSE IF HierarchyBroken(doc.headings)
    THEN Finding("heading-hierarchy", "content", "warning", <<"sequence">>)
  ELSE Finding("heading-hierarchy", "content", "passed", <<>>)

\* 7. Word Count
CheckWordCount(doc) ==
  IF doc.words < 300 THEN Finding("word-count", "content", "warning", <<>>)
  ELSE Finding("word-count", "content", "passed", <<>>)

\* 8. Image Alt Text: missingAlt holds the images without alt, in document
\* order (an entry is the position of the image)
MissingAlt(doc) ==
  SelectSeq([i \in 1..Len(doc.images) |-> i], LAMBDA i : ~doc.images[i].alt)

CheckImgAlt_fiveIsCritical(doc) ==
  IF Len(doc.images) = 0 THEN <<Finding("img-alt", "images", "info", <<>>)>>
  ELSE IF Len(MissingAlt(doc)) > 0
    THEN <<Finding("img-alt", "images",
                   IF Len(MissingAlt(doc)) >= 5 THEN "critical" ELSE "warning",
                   SubSeq(MissingAlt(doc), 1, Min(5, Len(MissingAlt(doc)))))>>
  ELSE <<Finding("img-alt", "images", "passed", <<>>)>>

CheckImgAlt(doc) ==
  IF Len(doc.images) = 0 THEN <<Finding("img-alt", "images", "info", <<>>)>>
  ELSE IF Len(MissingAlt(doc)) > 0
    THEN <<Finding("img-alt", "images",
                   IF Len(MissingAlt(doc)) > 5 THEN "critical" ELSE "warning",
                   SubSeq(MissingAlt(doc), 1, Min(5, Len(MissingAlt(doc)))))>>
  ELSE <<Finding("img-alt", "images", "passed", <<>>)>>

CheckImgLazy_fiveIsMany(doc) ==
  IF Len(doc.images) >= 5 /\ Cardinality({i \in 1..Len(doc.images) : doc.images[i].lazy}) = 0
    THEN <<Finding("img-lazy", "images", "warning", <<>>)>>
  ELSE IF Len(doc.images) > 0
    THEN <<Finding("img-lazy", "images", "passed", <<>>)>>
  ELSE <<>>

CheckImgLazy_onlyWhenLazy(doc) ==
  IF Len(doc.images) > 5 /\ Cardinality({i \in 1..Len(doc.images) : doc.images[i].lazy}) = 0
    THEN <<Finding("img-lazy", "images", "warning", <<>>)>>
  ELSE IF Cardinality({i \in 1..Len(doc.images) : doc.images[i].lazy}) > 0
    THEN <<Finding("img-lazy", "images", "passed", <<>>)>>
  ELSE <<>>

\* 9. Lazy Loading: pushes nothing for a page without images
LazyImages(doc) == Cardinality({i \in 1..Len(doc.images) : doc.images[i].lazy})

CheckImgLazy(doc) ==
  IF Len(doc.images) > 5 /\ LazyImages(doc) = 0
    THEN <<Finding("img-lazy", "images", "warning", <<>>)>>
  ELSE IF Len(doc.images) > 0
    THEN <<Finding("img-lazy", "images", "passed", <<>>)>>
  ELSE <<>>

CheckHttps_anyHttp(u) ==
  IF ~StartsWith(u, HTTP) THEN Finding("https", "technical", "critical", <<>>)
  ELSE Finding("https", "technical", "passed", <<>>)

\* 10. HTTPS
CheckHttps(u) ==
  IF ~StartsWith(u, HTTPS_SCHEME) THEN Finding("https", "technical", "critical", <<>>)
  ELSE Finding("https", "technical", "passed", <<>>)

\* 11. Mobile Viewport
CheckViewport(doc) ==
  IF ~doc.viewport THEN Finding("viewport", "technical", "critical", <<>>)
  ELSE Finding("viewport", "technical", "passed", <<>>)

\* 12. Favicon
CheckFavicon(doc) ==
  IF ~doc.favicon THEN Finding("favicon", "technical", "warning", <<>>)
  ELSE Finding("favicon", "technical", "passed", <<>>)

\* 13. Structured Data: types collects a type for every block whose parse and
\* type lookup do not throw (the throw is swallowed per block)
JsonLdTypes(doc) ==
  SelectSeq(doc.jsonLd, LAMBDA b : b \in {"typed", "untyped", "graph", "unprintable"})

\* types.join(', ') converts every element to a string, and throws a
\* TypeError for an object that has no callable toString or valueOf
TypesJoinThrows(doc) ==
  \E i \in 1..Len(JsonLdTypes(doc)) : JsonLdTypes(doc)[i] = "unprintable"

CheckStructuredData(doc) ==
  IF Len(doc.jsonLd) = 0
    THEN Finding("structured-data", "technical", "warning", <<>>)
  ELSE Finding("structured-data", "technical", "passed",
               IF Len(JsonLdTypes(doc)) > 0 THEN <<"types">> ELSE <<>>)

\* 14. Robots Meta
CheckRobotsMeta(doc) ==
  IF doc.robotsMeta \in {"noindex", "nofollow"}
    THEN Finding("robots-meta", "technical", "warning", <<>>)
  ELSE Finding("robots-meta", "technical", "passed", <<>>)

\* 15. robots.txt: res is what the fetch settled with; the try block also
\* catches the TypeError of data.toLowerCase on a body that is not a string
RobotsTxtThrows(res) ==
  res.failed \/ (res.status = 200 /\ ~res.isString)

CheckRobotsTxt_failureIsInvalid(res) ==
  IF RobotsTxtThrows(res)
    THEN Finding("robots-txt", "technical", "warning", <<>>)
  ELSE IF res.status = 200 /\ "user-agent" \in res.marks
    THEN Finding("robots-txt", "technical", "passed", <<>>)
  ELSE Finding("robots-txt", "technical", "warning", <<>>)

CheckRobotsTxt(res) ==
  IF RobotsTxtThrows(res)
    THEN Finding("robots-txt", "technical", "info", <<>>)
  ELSE IF res.status = 200 /\ "user-agent" \in res.marks
    THEN Finding("robots-txt", "technical", "passed", <<>>)
  ELSE Finding("robots-txt", "technical", "warning", <<>>)

\* 16. Sitemap: the condition is (status === 200 && includes('<urlset')) ||
\* includes('<sitemapindex'); on a body that is not a string the first
\* includes that is evaluated throws
SitemapThrows(res) == res.failed \/ ~res.isString

CheckSitemap(res) ==
  IF SitemapThrows(res)
    THEN Finding("sitemap", "technical", "info", <<>>)
  ELSE IF (res.status = 200 /\ "<urlset" \in res.marks) \/ "<sitemapindex" \in res.marks
    THEN Finding("sitemap", "technical", "passed", <<>>)
  ELSE Finding("sitemap", "technical", "warning", <<>>)

\* 17. - 20. Social
CheckOgTitle(doc) ==
  IF ~doc.ogTitle THEN Finding("og-title", "social", "warning", <<>>)
  ELSE Finding("og-title", "social", "passed", <<>>)

CheckOgImage(doc) ==
  IF ~doc.ogImage THEN Finding("og-image", "social", "warning", <<>>)
  ELSE Finding("og-image", "social", "passed", <<>>)

CheckOgDesc(doc) ==
  IF ~doc.ogDesc THEN Finding("og-desc", "social", "warning", <<>>)
  ELSE Finding("og-desc", "social", "passed", <<>>)

CheckTwitterCard_absentIsWarning(doc) ==
  IF ~doc.twitterCard THEN Finding("twitter-card", "social", "warning", <<>>)
  ELSE Finding("twitter-card", "social", "passed", <<>>)

CheckTwitterCard(doc) ==
  IF ~doc.twitterCard THEN Finding("twitter-card", "social", "info", <<>>)
  ELSE Finding("twitter-card", "social", "passed", <<>>)

CheckResponseTime_threeSecondsIsSlow(m) ==
  IF m.responseTimeMs >= 3000
    THEN Finding("response-time", "performance", "critical", <<>>)
  ELSE IF m.responseTimeMs > 1500
    THEN Finding("response-time", "performance", "warning", <<>>)
  ELSE Finding("response-time", "performance", "passed", <<>>)

\* 21. Response Time
CheckResponseTime(m) ==
  IF m.responseTimeMs > 3000
    THEN Finding("response-time", "performance", "critical", <<>>)
  ELSE IF m.responseTimeMs > 1500
    THEN Finding("response-time", "performance", "warning", <<>>)
  ELSE Finding("response-time", "performance", "passed", <<>>)

\* 22. Page Size
CheckPageSize(m) ==
  IF m.htmlSizeKb > 500 THEN Finding("page-size", "performance", "warning", <<>>)
  ELSE Finding("page-size", "performance", "passed", <<>>)

FetchFinding_asWarning == Finding("fetch", "technical", "warning", <<>>)

\* the finding of the catch block
FetchFinding == Finding("fetch", "technical", "critical", <<>>)

(***************************************************************************)
(* The battery in emission order, cut where the function awaits or can     *)
(* throw.                                                                  *)
(***************************************************************************)
MetaChecks(doc) ==
  <<CheckTitle(doc), CheckDescription(doc), CheckCanonical(doc), CheckLang(doc)>>

ContentChecks(doc) ==
  <<CheckH1(doc), CheckHeadingHierarchy(doc), CheckWordCount(doc)>>

ImageChecks(doc) == CheckImgAlt(doc) \o CheckImgLazy(doc)

SocialChecks(doc) ==
  <<CheckOgTitle(doc), CheckOgImage(doc), CheckOgDesc(doc), CheckTwitterCard(doc)>>

PerformanceChecks(m) == <<CheckResponseTime(m), CheckPageSize(m)>>

\* checks 1 to 12
ChecksToFavicon_imagesLate(u, doc) ==
  MetaChecks(doc) \o ContentChecks(doc)
    \o <<CheckHttps(u), CheckViewport(doc), CheckFavicon(doc)>> \o ImageChecks(doc)

ChecksToFavicon(u, doc) ==
  MetaChecks(doc) \o ContentChecks(doc) \o ImageChecks(doc)
    \o <<CheckHttps(u), CheckViewport(doc), CheckFavicon(doc)>>

\* checks 13 and 14
ChecksToRobotsMeta(doc) == <<CheckStructuredData(doc), CheckRobotsMeta(doc)>>

\* meta.responseTimeMs = Date.now() - startTime
MetaAtResponse(m, resp) == [m EXCEPT !.responseTimeMs = resp.elapsed]

\* meta.htmlSizeKb and meta.isShopify, once the body has been measured
MetaAtLoad(m, resp) ==
  [m EXCEPT !.htmlSizeKb = MathRound(resp.bytes, 1024), !.isShopify = resp.shopify]

\* meta.title, meta.description and meta.favicon, set by checks 1, 2 and 12
MetaToFavicon(m, doc) ==
  [m EXCEPT !.title = IF doc.title = 0 THEN Null ELSE Some(doc.title),
            !.description = IF doc.description = 0 THEN Null ELSE Some(doc.description),
            !.favicon = IF doc.favicon THEN Some("href") ELSE Null]

\* meta.ogImage, set by check 18
MetaAtSocial(m, doc) ==
  [m EXCEPT !.ogImage = IF doc.ogImage THEN Some("content") ELSE Null]

(***************************************************************************)
(* The aggregator: summary, score, grade and the returned object.          *)
(***************************************************************************)
WithStatus(cs, st) == SelectSeq(cs, LAMBDA c : c.status = st)

Summary_noInfo(cs) ==
  [critical |-> Len(WithStatus(cs, "critical")),
   warnings |-> Len(WithStatus(cs, "warning")),
   passed |-> Len(WithStatus(cs, "passed")),
   info |-> 0]

Summary(cs) ==
  [critical |-> Len(WithStatus(cs, "critical")),
   warnings |-> Len(WithStatus(cs, "warning")),
   passed |-> Len(WithStatus(cs, "passed")),
   info |-> Len(WithStatus(cs, "info"))]

\* The score is computed in IEEE-754 doubles.  For up to 23 scorable findings
\* the double ((passed + warnings * 0.4) / totalScorable) * 100 rounds as the
\* exact quotient does, except for these <<totalScorable, passed, warnings>>,
\* where the exact value is k + 0.5 and the double lies just below it.
RoundsBelowTie == {<<8, 3, 4>>, <<16, 6, 8>>, <<16, 8, 3>>}

Score_allCounted(cs) ==
  LET summary == Summary(cs)
      totalScorable == IF Len(cs) = 0 THEN 1 ELSE Len(cs)
  IN MathRound(summary.passed * 100 + summary.warnings * 40, totalScorable)

Score_weightsSwapped(cs) ==
  LET summary == Summary(cs)
      scorable == SelectSeq(cs, LAMBDA c : c.status # "info")
      totalScorable == IF Len(scorable) = 0 THEN 1 ELSE Len(scorable)
  IN MathRound(summary.passed * 40 + summary.warnings * 100, totalScorable)

\* score, before the cap
Score(cs) ==
  LET summary == Summary(cs)
      scorable == SelectSeq(cs, LAMBDA c : c.status # "info")
      totalScorable == IF Len(scorable) = 0 THEN 1 ELSE Len(scorable)
      exact == MathRound(summary.passed * 100 + summary.warnings * 40, totalScorable)
  IN IF <<totalScorable, summary.passed, summary.warnings>> \in RoundsBelowTie
       THEN exact - 1 ELSE exact

Report(u, cs, m) ==
  [url |-> u, score |-> Min(Score(cs), 100), grade |-> gradeFromScore(Score(cs)),
   checks |-> cs, summary |-> Summary(cs), meta |-> m]

(***************************************************************************)
(* auditUrl                                                                *)
(***************************************************************************)
\* if (!url.startsWith('http')) url = 'https://' + url
Normalize(u) == IF ~StartsWith(u, HTTP) THEN HTTPS_SCHEME \o u ELSE u

Request(resource, base) == [resource |-> resource, base |-> base]

\* the places of the function body that can throw to the outer handler
\* (the main request, the measuring of a body that is not a string, the
\* joining of the JSON-LD types) that the outer try block encloses
TryBlock_fetchOnly == {"axios.get"}

TryBlock == {"axios.get", "Buffer.byteLength", "types.join"}

Init ==
  /\ pc = "idle"
  /\ input = Null
  /\ url = Null
  /\ net = Null
  /\ response = Null
  /\ robotsRes = Null
  /\ smRes = Null
  /\ checks = <<>>
  /\ meta = DefaultMeta
  /\ requests = <<>>
  /\ thrown = "none"
  /\ outcome = "none"
  /\ report = Null
  /\ prior = Null
  /\ previous = Null
  /\ suspended = Null
  /\ http = Null

\* lines 323-344: the promise resolves with the report (the finding list
\* and the meta are the values the body has built by then)
Resolve(cs, m) ==
  \E found \in {cs}, seen \in {m} :
    /\ pc' = "done"
    /\ checks' = found
    /\ meta' = seen
    /\ outcome' = "resolved"
    /\ report' = Some(Report(url, found, seen))

\* an exception raised at `site`: the catch block pushes the fetch finding
\* and the function goes on to the aggregation; outside the try block the
\* promise rejects
Throw(site, cs, m) ==
  /\ thrown' = site
  /\ IF site \in TryBlock
       THEN Resolve(cs \o <<FetchFinding>>, m)
       ELSE /\ pc' = "done"
            /\ checks' = cs
            /\ meta' = m
            /\ outcome' = "rejected"
            /\ report' = Null

Enter_allRequested(u, n) ==
  /\ net' = Some(n)
  /\ input' = u
  /\ url' = Normalize(u)
  /\ checks' = <<>>
  /\ meta' = DefaultMeta
  /\ requests' = <<Request("main", Normalize(u)), Request("robots.txt", Normalize(u)),
                   Request("sitemap.xml", Normalize(u))>>
  /\ response' = Null
  /\ robotsRes' = Null
  /\ smRes' = Null
  /\ thrown' = "none"
  /\ report' = Null
  /\ outcome' = "pending"
  /\ pc' = "awaitMain"

Enter_checksRetained(u, n) ==
  /\ net' = Some(n)
  /\ input' = u
  /\ url' = Normalize(u)
  /\ checks' = checks
  /\ meta' = meta
  /\ requests' = <<Request("main", Normalize(u))>>
  /\ response' = Null
  /\ robotsRes' = Null
  /\ smRes' = Null
  /\ thrown' = "none"
  /\ report' = Null
  /\ outcome' = "pending"
  /\ pc' = "awaitMain"

\* lines 51-63: normalization, the fresh checks and meta, the main request.
\* Everything the function works on is local to the call.
Enter(u, n) ==
  /\ net' = Some(n)
  /\ input' = u
  /\ url' = Normalize(u)
  /\ checks' = <<>>
  /\ meta' = DefaultMeta
  /\ requests' = <<Request("main", Normalize(u))>>
  /\ response' = Null
  /\ robotsRes' = Null
  /\ smRes' = Null
  /\ thrown' = "none"
  /\ report' = Null
  /\ outcome' = "pending"
  /\ pc' = "awaitMain"

Call(u, n) ==
  /\ pc = "idle"
  /\ Enter(u, n)
  /\ UNCHANGED <<prior, previous, suspended, http>>

\* the main fetch fails: network error, timeout, too many redirects, or a
\* status outside 2xx
MainFetchRejects ==
  /\ pc = "awaitMain"
  /\ net[1].mainFails
  /\ Throw("axios.get", checks, meta)
  /\ UNCHANGED <<input, url, net, response, robotsRes, smRes, requests, prior,
               previous, suspended, http>>

\* lines 69-243: the main fetch resolves; the function runs on to the
\* robots.txt request, or to its end when it throws on the way or when
\* new URL() rejects the base url in both auxiliary checks (whether axios
\* can resolve a request for such a url depends on its version, which the
\* repository does not pin: both outcomes are allowed)
MainFetchResolves ==
  /\ pc = "awaitMain"
  /\ ~net[1].mainFails
  /\ response' = Some(net[1])
  /\ LET resp == net[1]
         m1 == MetaAtResponse(meta, resp)
         m12 == MetaToFavicon(MetaAtLoad(m1, resp), resp)
         c12 == checks \o ChecksToFavicon(url, resp)
         c14 == c12 \o ChecksToRobotsMeta(resp)
         m22 == MetaAtSocial(m12, resp)
     IN IF ~resp.isString
          THEN /\ Throw("Buffer.byteLength", checks, m1)
               /\ UNCHANGED requests
        ELSE IF TypesJoinThrows(resp)
          THEN /\ Throw("types.join", c12, m12)
               /\ UNCHANGED requests
        ELSE IF ~ParsesAsUrl(url)
          THEN /\ Resolve(c14 \o <<CheckRobotsTxt(AuxFailed), CheckSitemap(AuxFailed)>>
                              \o SocialChecks(resp) \o PerformanceChecks(m22), m22)
               /\ UNCHANGED <<requests, thrown>>
        ELSE /\ checks' = c14
             /\ meta' = m12
             /\ requests' = Append(requests, Request("robots.txt", url))
             /\ pc' = "awaitRobots"
             /\ UNCHANGED <<thrown, outcome, report>>
  /\ UNCHANGED <<input, url, net, robotsRes, smRes, prior, previous, suspended, http>>

RobotsSettles_retriesOnce ==
  /\ pc = "awaitRobots"
  /\ IF net[1].robots.failed /\ Len(requests) = 2
       THEN /\ requests' = Append(requests, Request("robots.txt", url))
            /\ UNCHANGED <<robotsRes, checks, pc>>
       ELSE /\ robotsRes' = Some(net[1].robots)
            /\ checks' = Append(checks, CheckRobotsTxt(net[1].robots))
            /\ requests' = Append(requests, Request("sitemap.xml", url))
            /\ pc' = "awaitSitemap"
  /\ UNCHANGED <<input, url, net, response, smRes, meta, thrown, outcome, report, prior,
                 previous, suspended, http>>

RobotsSettles_noTimeout ==
  /\ pc = "awaitRobots"
  /\ ~net[1].robots.failed
  /\ robotsRes' = Some(net[1].robots)
  /\ checks' = Append(checks, CheckRobotsTxt(net[1].robots))
  /\ requests' = Append(requests, Request("sitemap.xml", url))
  /\ pc' = "awaitSitemap"
  /\ UNCHANGED <<input, url, net, response, smRes, meta, thrown, outcome, report, prior,
                 previous, suspended, http>>

\* lines 244-256: the robots.txt fetch settles; the sitemap request follows
RobotsSettles ==
  /\ pc = "awaitRobots"
  /\ robotsRes' = Some(net[1].robots)
  /\ checks' = Append(checks, CheckRobotsTxt(net[1].robots))
  /\ requests' = Append(requests, Request("sitemap.xml", url))
  /\ pc' = "awaitSitemap"
  /\ UNCHANGED <<input, url, net, response, smRes, meta, thrown, outcome, report, prior,
               previous, suspended, http>>

SitemapSettles_timedAtEnd ==
  /\ pc = "awaitSitemap"
  /\ smRes' = Some(net[1].sitemap)
  /\ LET doc == response[1]
         res == net[1].sitemap
         waited == (IF net[1].robots.failed THEN 5000 ELSE 0)
                     + (IF res.failed THEN 5000 ELSE 0)
         m22 == [MetaAtSocial(meta, doc) EXCEPT !.responseTimeMs = @ + waited]
     IN Resolve(Append(checks, CheckSitemap(res))
                  \o SocialChecks(doc) \o PerformanceChecks(m22), m22)
  /\ UNCHANGED <<input, url, net, response, robotsRes, requests, thrown, prior,
               previous, suspended, http>>

\* lines 257-344: the sitemap fetch settles; social and performance checks,
\* aggregation, return
SitemapSettles ==
  /\ pc = "awaitSitemap"
  /\ smRes' = Some(net[1].sitemap)
  /\ LET doc == response[1]
         res == net[1].sitemap
         m22 == MetaAtSocial(meta, doc)
     IN Resolve(Append(checks, CheckSitemap(res))
                  \o SocialChecks(doc) \o PerformanceChecks(m22), m22)
  /\ UNCHANGED <<input, url, net, response, robotsRes, requests, thrown, prior,
               previous, suspended, http>>

Next ==
  \/ pc = "idle" /\ \E u \in Urls, n \in Networks : Call(u, n)
  \/ MainFetchRejects
  \/ MainFetchResolves
  \/ RobotsSettles
  \/ SitemapSettles

Spec == Init /\ [][Next]_vars

(***************************************************************************)
(* Every fetch settles: each axios.get carries a timeout (20000 ms for the *)
(* page, 5000 ms for each auxiliary file), so its promise is fulfilled or  *)
(* rejected in bounded time, and the event loop then runs the              *)
(* continuation of the await.                                              *)
(***************************************************************************)
Settling ==
  WF_vars(MainFetchRejects \/ MainFetchResolves \/ RobotsSettles \/ SitemapSettles)

LiveSpec == Init /\ [][Next]_vars /\ Settling

(***************************************************************************)
(* auditUrl as a function: the report of a call that runs alone, from its  *)
(* argument and what the network answers.                                  *)
(***************************************************************************)
AuxResults(u, n) ==
  IF ParsesAsUrl(u) THEN <<n.robots, n.sitemap>> ELSE <<AuxFailed, AuxFailed>>

AuditAlone(u, n) ==
  LET target == Normalize(u)
      m1 == MetaAtResponse(DefaultMeta, n)
      m12 == MetaToFavicon(MetaAtLoad(m1, n), n)
      m22 == MetaAtSocial(m12, n)
      c12 == ChecksToFavicon(target, n)
      aux == AuxResults(target, n)
  IN IF n.mainFails THEN Report(target, <<FetchFinding>>, DefaultMeta)
     ELSE IF ~n.isString THEN Report(target, <<FetchFinding>>, m1)
     ELSE IF TypesJoinThrows(n) THEN Report(target, c12 \o <<FetchFinding>>, m12)
     ELSE Report(target,
                 c12 \o ChecksToRobotsMeta(n)
                     \o <<CheckRobotsTxt(aux[1]), CheckSitemap(aux[2])>>
                     \o SocialChecks(n) \o PerformanceChecks(m22),
                 m22)

(***************************************************************************)
(* A second call of auditUrl after the first has returned, against the     *)
(* same network: with the same argument, or with the argument whose url    *)
(* differs from the first one only in the scheme (http:// for https://).   *)
(***************************************************************************)
SchemeTwins(a, b) ==
  \/ /\ StartsWith(a, HTTP_SCHEME) /\ StartsWith(b, HTTPS_SCHEME)
     /\ SubSeq(a, Len(HTTP_SCHEME) + 1, Len(a)) = SubSeq(b, Len(HTTPS_SCHEME) + 1, Len(b))
  \/ /\ StartsWith(a, HTTPS_SCHEME) /\ StartsWith(b, HTTP_SCHEME)
     /\ SubSeq(a, Len(HTTPS_SCHEME) + 1, Len(a)) = SubSeq(b, Len(HTTP_SCHEME) + 1, Len(b))

CallAgain(u) ==
  /\ pc = "done"
  /\ outcome = "resolved"
  /\ previous = Null
  /\ u = input \/ SchemeTwins(Normalize(u), url)
  /\ previous' = Some([input |-> input, url |-> url, report |-> report[1]])
  /\ Enter(u, net[1])
  /\ UNCHANGED <<prior, suspended, http>>

RerunNext ==
  \/ Next
  \/ pc = "done" /\ \E u \in Urls : CallAgain(u)

RerunSpec == Init /\ [][RerunNext]_vars

(***************************************************************************)
(* Two calls in progress at once, as when the POST handler is entered for  *)
(* a second request while the first audit awaits a fetch.  JavaScript runs *)
(* one call at a time and switches only at an await: the variables above   *)
(* are the locals of the call that runs, suspended holds the locals of the *)
(* other.  The module has no state of its own (lines 1-40 declare imports, *)
(* types and gradeFromScore), so a switch exchanges all of it.             *)
(***************************************************************************)
ConcurrentSites ==
  {GoodSite, BareSite,
   [GoodSite EXCEPT !.mainFails = TRUE],
   [GoodSite EXCEPT !.isString = FALSE],
   [GoodSite EXCEPT !.jsonLd = <<"unprintable">>],
   [GoodSite EXCEPT !.sitemap = AuxFailed]}

Locals ==
  [pc |-> pc, input |-> input, url |-> url, net |-> net, response |-> response,
   robotsRes |-> robotsRes, smRes |-> smRes, checks |-> checks, meta |-> meta,
   requests |-> requests, thrown |-> thrown, outcome |-> outcome, report |-> report]

Resume_checksShared(f) ==
  /\ pc' = f.pc
  /\ input' = f.input
  /\ url' = f.url
  /\ net' = f.net
  /\ response' = f.response
  /\ robotsRes' = f.robotsRes
  /\ smRes' = f.smRes
  /\ checks' = checks
  /\ meta' = f.meta
  /\ requests' = f.requests
  /\ thrown' = f.thrown
  /\ outcome' = f.outcome
  /\ report' = f.report

Resume(f) ==
  /\ pc' = f.pc
  /\ input' = f.input
  /\ url' = f.url
  /\ net' = f.net
  /\ response' = f.response
  /\ robotsRes' = f.robotsRes
  /\ smRes' = f.smRes
  /\ checks' = f.checks
  /\ meta' = f.meta
  /\ requests' = f.requests
  /\ thrown' = f.thrown
  /\ outcome' = f.outcome
  /\ report' = f.report

\* route.ts line 33: a second request calls auditUrl while the first call
\* is suspended at one of its awaits
CallConcurrently(u, n) ==
  /\ pc \in {"awaitMain", "awaitRobots", "awaitSitemap"}
  /\ suspended = Null
  /\ suspended' = Some(Locals)
  /\ Enter(u, n)
  /\ UNCHANGED <<prior, previous, http>>

\* the running call has reached an await or has returned, and the event loop
\* runs the continuation of the other call
Switch ==
  /\ suspended # Null
  /\ pc \in {"awaitMain", "awaitRobots", "awaitSitemap", "done"}
  /\ suspended[1].pc # "done"
  /\ suspended' = Some(Locals)
  /\ Resume(suspended[1])
  /\ UNCHANGED <<prior, previous, http>>

ConcurrentNext ==
  \/ pc = "idle" /\ \E u \in Urls, n \in ConcurrentSites : Call(u, n)
  \/ MainFetchRejects
  \/ MainFetchResolves
  \/ RobotsSettles
  \/ SitemapSettles
  \/ \E u \in Urls, n \in ConcurrentSites : CallConcurrently(u, n)
  \/ Switch

ConcurrentSpec == Init /\ [][ConcurrentNext]_vars

(***************************************************************************)
(* The request handler: POST /api/audit (app/api/audit/route.ts).  A       *)
(* request body is what request.json() makes of it: "invalid" when it      *)
(* rejects, "null" for the JSON value null, otherwise an object whose url  *)
(* field is undefined, a string, or a number.                              *)
(***************************************************************************)
UrlField(type, text) == [type |-> type, text |-> text]

UrlFields ==
  {UrlField("undefined", <<>>), UrlField("number", <<"0">>), UrlField("number", <<"7">>)}
    \cup {UrlField("string", t) :
            t \in Urls \cup {<<" ">>, <<"a", " ", "c">>, <<"a", ".", "c", " ">>,
                             HTTPS_SCHEME \o <<"a", " ", "c">>,
                             <<" ">> \o HTTP_SCHEME \o <<"a", ".", "c", " ">>}}

RequestBody(kind, field) == [kind |-> kind, url |-> field]

RequestBodies ==
  {RequestBody("invalid", UrlField("undefined", <<>>)),
   RequestBody("null", UrlField("undefined", <<>>))}
    \cup {RequestBody("object", f) : f \in UrlFields}

\* !url
Falsy(field) ==
  \/ field.type = "undefined"
  \/ field.type = "string" /\ field.text = <<>>
  \/ field.type = "number" /\ field.text = <<"0">>

\* url.trim()
Trim(s) ==
  LET kept == {i \in 1..Len(s) : s[i] # " "}
  IN IF kept = {} THEN <<>>
     ELSE SubSeq(s, CHOOSE i \in kept : \A j \in kept : i <= j,
                    CHOOSE i \in kept : \A j \in kept : i >= j)

\* lines 17-20: if (!targetUrl.match(/^https?:\/\//)) targetUrl = 'https://' + targetUrl
TargetUrl(text) ==
  IF StartsWith(Trim(text), HTTP_SCHEME) \/ StartsWith(Trim(text), HTTPS_SCHEME)
    THEN Trim(text)
    ELSE HTTPS_SCHEME \o Trim(text)

Answer(status, target) == [status |-> status, target |-> target]

Gate_untrimmed(b) ==
  IF b.kind \in {"invalid", "null"} THEN Answer(500, Null)
  ELSE IF Falsy(b.url) THEN Answer(400, Null)
  ELSE IF b.url.type # "string" THEN Answer(500, Null)
  ELSE LET targetUrl == IF StartsWith(b.url.text, HTTP_SCHEME)
                             \/ StartsWith(b.url.text, HTTPS_SCHEME)
                          THEN b.url.text
                          ELSE HTTPS_SCHEME \o b.url.text
       IN IF ~ParsesAsUrl(targetUrl) THEN Answer(400, Null)
          ELSE Answer(0, Some(targetUrl))

\* lines 5-30, up to the call of auditUrl: the status of the response the
\* handler returns at once, or 0 and the url it goes on to audit.  An
\* exception (request.json() rejecting, destructuring null, url.trim on a
\* value that is not a string) is caught at line 36 and answered with 500.
Gate(b) ==
  IF b.kind \in {"invalid", "null"} THEN Answer(500, Null)
  ELSE IF Falsy(b.url) THEN Answer(400, Null)
  ELSE IF b.url.type # "string" THEN Answer(500, Null)
  ELSE IF ~ParsesAsUrl(TargetUrl(b.url.text)) THEN Answer(400, Null)
  ELSE Answer(0, Some(TargetUrl(b.url.text)))

Exchange(b, status, calls, target, sent) ==
  [request |-> b, status |-> status, calls |-> calls, target |-> target, sent |-> sent]

\* lines 4-33: a request arrives and is answered at once or handed to auditUrl
Post(b, n) ==
  /\ pc = "idle"
  /\ http = Null
  /\ IF Gate(b).status # 0
       THEN /\ http' = Some(Exchange(b, Gate(b).status, 0, Null, Null))
            /\ UNCHANGED <<pc, input, url, net, response, robotsRes, smRes, checks,
                           meta, requests, thrown, outcome, report>>
       ELSE /\ http' = Some(Exchange(b, 0, 1, Gate(b).target, Null))
            /\ Enter(Gate(b).target[1], n)
  /\ UNCHANGED <<prior, previous, suspended>>

\* lines 33-41: the awaited audit has settled: the report is sent, or the
\* catch block answers 500
Respond ==
  /\ pc = "done"
  /\ http # Null
  /\ http[1].status = 0
  /\ http' = Some([http[1] EXCEPT
                     !.status = IF outcome = "resolved" THEN 200 ELSE 500,
                     !.sent = IF outcome = "resolved" THEN report ELSE Null])
  /\ UNCHANGED <<pc, input, url, net, response, robotsRes, smRes, checks, meta,
                 requests, thrown, outcome, report, prior, previous, suspended>>

HandlerNext ==
  \/ pc = "idle" /\ \E b \in RequestBodies, n \in ConcurrentSites : Post(b, n)
  \/ MainFetchRejects
  \/ MainFetchResolves
  \/ RobotsSettles
  \/ SitemapSettles
  \/ Respond

HandlerSpec == Init /\ [][HandlerNext]_vars

(***************************************************************************)
(* The aggregator on its own: it is a function of the finding list, so it  *)
(* is applied to a list for every tally of up to MaxFindings findings, and *)
(* to the lists obtained from them by upgrading the severity of one        *)
(* finding.                                                                *)
(* The aggregator reads a list only through the findings' statuses.        *)
(***************************************************************************)
AnyFinding(st) == Finding("check", "technical", st, <<>>)

Repeat(st, n) == [i \in 1..n |-> AnyFinding(st)]

\* one list for every tally of up to MaxFindings findings
FindingLists ==
  {Repeat("critical", t[1]) \o Repeat("warning", t[2])
     \o Repeat("passed", t[3]) \o Repeat("info", t[4]) :
     t \in {x \in [1..4 -> 0..MaxFindings] : x[1] + x[2] + x[3] + x[4] <= MaxFindings}}

\* critical -> warning -> passed
Better(st) ==
  CASE st = "critical" -> {"warning", "passed"}
    [] st = "warning" -> {"passed"}
    [] OTHER -> {}

ScoreInit ==
  /\ pc = "scored"
  /\ checks \in FindingLists
  /\ report = Some(Report(Null, checks, DefaultMeta))
  /\ prior = Null
  /\ previous = Null
  /\ suspended = Null
  /\ http = Null
  /\ input = Null
  /\ url = Null
  /\ net = Null
  /\ response = Null
  /\ robotsRes = Null
  /\ smRes = Null
  /\ meta = DefaultMeta
  /\ requests = <<>>
  /\ thrown = "none"
  /\ outcome = "resolved"

\* one finding of a scored list is given a better severity, and the list is
\* scored again
Upgrade(i, st) ==
  /\ pc = "scored"
  /\ st \in Better(checks[i].status)
  /\ pc' = "rescored"
  /\ prior' = checks
  /\ checks' = [checks EXCEPT ![i].status = st]
  /\ report' = Some(Report(Null, checks', DefaultMeta))
  /\ UNCHANGED <<input, url, net, response, robotsRes, smRes, meta, requests,
                 thrown, outcome, previous, suspended, http>>

ScoreNext == \E i \in 1..Len(checks), st \in Severities : Upgrade(i, st)

ScoreSpec == ScoreInit /\ [][ScoreNext]_vars

(***************************************************************************)
(* Properties.                                                             *)
(***************************************************************************)
Returned == report # Null
R == report[1]

Ids(cs) == [i \in 1..Len(cs) |-> cs[i].id]
HasId(cs, id) == \E i \in 1..Len(cs) : cs[i].id = id
Tally(cs, st) == Cardinality({i \in 1..Len(cs) : cs[i].status = st})
Grades == {"A+", "A", "B", "C", "D", "F"}

WellFormedReport(r) ==
  /\ r.url = url
  /\ r.score \in 0..100
  /\ r.grade \in Grades
  /\ \A i \in 1..Len(r.checks) :
       /\ r.checks[i].status \in Severities
       /\ \E k \in 1..Len(Categories) : r.checks[i].category = Categories[k]
  /\ \A f \in {"critical", "warnings", "passed", "info"} : r.summary[f] \in Nat
  /\ DOMAIN r.meta = DOMAIN DefaultMeta

\* C1: auditUrl never raises: whatever the input and whatever the three
\* fetches do, the promise is never rejected, and once the function is done
\* the promise is resolved with a well-formed report.
C1_NeverRaises ==
  /\ outcome # "rejected"
  /\ pc = "done" => outcome = "resolved" /\ Returned /\ WellFormedReport(R)

\* a failure after the main fetch (a body that is not a string) was captured
\* in a report
C1_Witness ==
  pc = "done" /\ thrown = "Buffer.byteLength" /\ outcome = "resolved" /\ Returned

\* C2: when the main fetch fails or anything in the audit body throws, the
\* report holds exactly one finding, the technical/critical fetch-failure
\* finding, and no finding of a content check.
C2_FailureHasOneFinding ==
  (Returned /\ thrown # "none") =>
    /\ Len(R.checks) = 1
    /\ R.checks[1].id = "fetch"
    /\ R.checks[1].category = "technical"
    /\ R.checks[1].status = "critical"

\* C3: a report that holds the fetch-failure finding has every metadata field
\* at its default.
C3_FailureKeepsDefaultMeta ==
  (Returned /\ HasId(R.checks, "fetch")) => R.meta = DefaultMeta

\* C4: every summary field is the number of findings of that severity, so the
\* four fields add up to the number of findings.
C4_SummaryTallies ==
  Returned =>
    /\ R.summary.critical = Tally(R.checks, "critical")
    /\ R.summary.warnings = Tally(R.checks, "warning")
    /\ R.summary.passed = Tally(R.checks, "passed")
    /\ R.summary.info = Tally(R.checks, "info")
    /\ R.summary.critical + R.summary.warnings + R.summary.passed + R.summary.info
         = Len(R.checks)

C4_Witness ==
  /\ Returned
  /\ R.summary.critical > 0 /\ R.summary.warnings > 0
  /\ R.summary.passed > 0 /\ R.summary.info > 1

\* s is the integer nearest to num / den, halves rounded up
IsRounded(s, num, den) == 2 * den * s <= 2 * num + den /\ 2 * num + den < 2 * den * (s + 1)

\* the lists that differ from cs only in info findings: some of the info
\* findings of cs left out, or one more appended
InfoVariants(cs) ==
  LET infos == {i \in 1..Len(cs) : cs[i].status = "info"} IN
  {SelectSeq([i \in 1..Len(cs) |-> [at |-> i, f |-> cs[i]]], LAMBDA e : e.at \notin S) :
     S \in SUBSET infos}

FindingsOf(es) == [i \in 1..Len(es) |-> es[i].f]

\* C5: the score of a report is an integer in 0..100, the rounded value of
\* (passed + 0.4 * warnings) / max(1, findings that are not info) * 100,
\* capped at 100; info findings do not count, so leaving out info findings
\* or adding one does not change the score.
C5_ScoreFormula ==
  Returned =>
    LET p == Tally(R.checks, "passed")
        w == Tally(R.checks, "warning")
        c == Tally(R.checks, "critical")
        n == IF p + w + c = 0 THEN 1 ELSE p + w + c
    IN /\ R.score \in 0..100
       /\ \E s \in 0..100 : IsRounded(s, 100 * p + 40 * w, n) /\ R.score = Min(s, 100)
       /\ \A es \in InfoVariants(R.checks) :
            Report(url, FindingsOf(es), R.meta).score = R.score
       /\ Report(url, Append(R.checks, AnyFinding("info")), R.meta).score = R.score

C5_Witness ==
  /\ Returned
  /\ Tally(R.checks, "info") >= 2
  /\ Tally(R.checks, "warning") >= 1
  /\ Tally(R.checks, "critical") >= 1
  /\ R.score > 0 /\ R.score < 100

GradeBands ==
  {<<90, 100, "A+">>, <<80, 89, "A">>, <<70, 79, "B">>, <<60, 69, "C">>,
   <<50, 59, "D">>, <<0, 49, "F">>}

\* C6: the grade of a report is the step function of its reported score
\* (90 A+, 80 A, 70 B, 60 C, 50 D, below F); computing the grade before the
\* cap makes no difference.
C6_GradeIsStep ==
  Returned =>
    \E b \in GradeBands : b[1] <= R.score /\ R.score <= b[2] /\ R.grade = b[3]

C6_Witness == Returned /\ R.grade = "A+" /\ R.score < 100

IsUpgradeOf(before, after) ==
  /\ Len(before) = Len(after)
  /\ \E i \in 1..Len(before) :
       /\ after[i].status \in Better(before[i].status)
       /\ after = [before EXCEPT ![i].status = after[i].status]

\* C7: replacing the severity of one finding of a list by a better one
\* (critical to warning, warning to passed, critical to passed) never lowers
\* the score.
C7_UpgradeMonotone ==
  (prior # Null /\ IsUpgradeOf(prior, checks)) =>
    R.score >= Report(Null, prior, DefaultMeta).score

C7_Witness ==
  /\ prior # Null
  /\ IsUpgradeOf(prior, checks)
  /\ Tally(prior, "warning") > Tally(checks, "warning")
  /\ R.score > Report(Null, prior, DefaultMeta).score

AfterBattery == {"og-title", "og-image", "og-desc", "twitter-card", "response-time", "page-size"}

StatusOf(cs, id) == (CHOOSE c \in {cs[i] : i \in 1..Len(cs)} : c.id = id).status

\* C8: a failed or timed-out robots.txt (sitemap.xml) fetch gives that check
\* an info finding and never fails the audit: no fetch-failure finding is
\* pushed, and every later check of the battery is in the report.
C8_AuxFailureIsInfo ==
  /\ (robotsRes = Some(AuxFailed)) =>
       /\ HasId(checks, "robots-txt") /\ StatusOf(checks, "robots-txt") = "info"
       /\ ~HasId(checks, "fetch")
       /\ pc = "done" =>
            /\ Returned
            /\ \A id \in AfterBattery \cup {"sitemap"} : HasId(R.checks, id)
  /\ (smRes = Some(AuxFailed)) =>
       /\ Returned
       /\ HasId(R.checks, "sitemap") /\ StatusOf(R.checks, "sitemap") = "info"
       /\ ~HasId(R.checks, "fetch")
       /\ \A id \in AfterBattery : HasId(R.checks, id)

C8_Witness ==
  /\ pc = "done" /\ Returned
  /\ robotsRes = Some(AuxFailed)
  /\ smRes = Some(AuxFailed)
  /\ Len(R.checks) = 22

\* C9: an input that does not begin with 'http://' or 'https://' is fetched
\* and reported as 'https://' followed by the input; an input with a scheme
\* is used as it is.
C9_UrlNormalized ==
  pc # "idle" =>
    /\ IF StartsWith(input, HTTP_SCHEME) \/ StartsWith(input, HTTPS_SCHEME)
         THEN url = input
         ELSE url = HTTPS_SCHEME \o input
    /\ requests[1] = Request("main", url)
    /\ Returned => R.url = url

CheckOrder ==
  <<"meta-title", "meta-desc", "canonical", "lang", "h1", "heading-hierarchy",
    "word-count", "img-alt", "img-lazy", "https", "viewport", "favicon",
    "structured-data", "robots-meta", "robots-txt", "sitemap", "og-title",
    "og-image", "og-desc", "twitter-card", "response-time", "page-size">>

Rank(category) == CHOOSE k \in 1..Len(Categories) : Categories[k] = category

\* C10: in every report the findings come in the category order meta,
\* content, images, technical, social, performance, and on the success path
\* the identifiers are the fixed sequence of the battery without the checks
\* that were skipped.
C10_CategoryOrder ==
  Returned =>
    /\ \A i, j \in 1..Len(R.checks) :
         i < j => Rank(R.checks[i].category) <= Rank(R.checks[j].category)
    /\ thrown = "none" =>
         Ids(R.checks) = SelectSeq(CheckOrder, LAMBDA id : HasId(R.checks, id))

C10_Witness ==
  /\ Returned /\ thrown = "none"
  /\ Len(R.checks) = 21
  /\ ~HasId(R.checks, "img-lazy")

\* C11: two calls of auditUrl with the same argument, answered by the same
\* three fetch results with the same elapsed time, return reports with the
\* same sequence of findings and the same score.
C11_Deterministic ==
  (Returned /\ previous # Null /\ input = previous[1].input) =>
    /\ R.checks = previous[1].report.checks
    /\ R.score = previous[1].report.score

C11_Witness ==
  /\ Returned /\ previous # Null
  /\ input = previous[1].input
  /\ thrown = "none"
  /\ Len(R.checks) = 22
  /\ R.score < 100

Awaited ==
  [awaitMain |-> "main", awaitRobots |-> "robots.txt", awaitSitemap |-> "sitemap.xml"]

\* C12: provided each fetch settles, every call eventually returns a report,
\* and while it has not returned it waits on nothing but the fetch it issued
\* last, one of at most three.
C12_Terminates ==
  /\ [](pc \in {"idle", "done"} \cup DOMAIN Awaited)
  /\ [](pc \in DOMAIN Awaited =>
          /\ Len(requests) <= 3
          /\ requests[Len(requests)].resource = Awaited[pc])
  /\ (pc \in DOMAIN Awaited) ~> (pc = "done" /\ outcome = "resolved" /\ Returned)

C12_Witness ==
  /\ pc = "done" /\ outcome = "resolved" /\ Returned
  /\ Len(requests) = 3
  /\ robotsRes = Some(AuxFailed)

Without(cs, id) == SelectSeq(cs, LAMBDA c : c.id # id)

\* C13: the HTTPS finding is critical when the audited url does not begin
\* with 'https://' and passed when it does, and two audits of the same page
\* content whose urls differ only in the scheme return the same findings
\* apart from the HTTPS one.
C13_HttpsOnly ==
  Returned =>
    /\ thrown = "none" => HasId(R.checks, "https")
    /\ HasId(R.checks, "https") =>
         StatusOf(R.checks, "https") =
           IF StartsWith(R.url, HTTPS_SCHEME) THEN "passed" ELSE "critical"
    /\ (previous # Null /\ SchemeTwins(url, previous[1].url)) =>
         Without(R.checks, "https") = Without(previous[1].report.checks, "https")

C13_Witness ==
  /\ Returned /\ previous # Null
  /\ thrown = "none"
  /\ SchemeTwins(url, previous[1].url)
  /\ StatusOf(R.checks, "https") = "critical"
  /\ StatusOf(previous[1].report.checks, "https") = "passed"
  /\ Len(R.checks) = 22

SuspendedReturned == suspended # Null /\ suspended[1].report # Null

\* C14: when two calls of auditUrl are in progress at once and interleave at
\* their awaits, each returns exactly the report it would return had it run
\* alone: nothing of one call is seen by the other.
C14_Isolated ==
  /\ Returned => R = AuditAlone(input, net[1])
  /\ SuspendedReturned =>
       suspended[1].report[1] = AuditAlone(suspended[1].input, suspended[1].net[1])

C14_Witness ==
  /\ Returned /\ SuspendedReturned
  /\ Len(requests) = 3 /\ Len(suspended[1].requests) = 3
  /\ R.checks # suspended[1].report[1].checks
  /\ R.score # suspended[1].report[1].score

SitemapMarkers == {"<urlset", "<sitemapindex"}

\* C15: the sitemap finding is passed only when the fetch answered 200 with a
\* body that contains '<urlset' or '<sitemapindex'; any other response that
\* was received gives warning, and a fetch that failed or timed out gives
\* info.
C15_SitemapClassification ==
  (Returned /\ smRes # Null) =>
    LET res == smRes[1]
        valid == ~res.failed /\ res.status = 200 /\ res.marks \cap SitemapMarkers # {}
    IN StatusOf(R.checks, "sitemap") =
         IF res.failed THEN "info" ELSE IF valid THEN "passed" ELSE "warning"

\* C16: the robots.txt finding is passed exactly when the fetch answered 200
\* with a body that contains 'user-agent' in any letter case; every other
\* response that was received, whatever its status and body, gives warning,
\* and only a fetch that failed or timed out gives info.
C16_RobotsClassification ==
  robotsRes # Null =>
    LET res == robotsRes[1]
        valid == ~res.failed /\ res.status = 200 /\ "user-agent" \in res.marks
    IN StatusOf(checks, "robots-txt") =
         IF res.failed THEN "info" ELSE IF valid THEN "passed" ELSE "warning"

ImageCheckIds == {"img-alt", "img-lazy"}
CheckIds == {CheckOrder[k] : k \in 1..Len(CheckOrder)}

\* C17: in every report a check identifier appears at most once; on the
\* success path every check other than the two image checks has exactly one
\* finding, and an image check has none only when the page has no images.
C17_OneFindingPerCheck ==
  Returned =>
    /\ \A i, j \in 1..Len(R.checks) : R.checks[i].id = R.checks[j].id => i = j
    /\ thrown = "none" =>
         /\ \A i \in 1..Len(R.checks) : R.checks[i].id \in CheckIds
         /\ \A id \in CheckIds \ ImageCheckIds : HasId(R.checks, id)
         /\ \A id \in ImageCheckIds :
              ~HasId(R.checks, id) => Len(response[1].images) = 0

C17_Witness ==
  /\ Returned /\ thrown = "none"
  /\ response[1].images = <<>>
  /\ StatusOf(R.checks, "img-alt") = "info"
  /\ Ids(R.checks) = SelectSeq(CheckOrder, LAMBDA id : id # "img-lazy")

Requested(resource) ==
  Cardinality({i \in 1..Len(requests) : requests[i].resource = resource})

\* C18: no fetch is retried: within one call the page, /robots.txt and
\* /sitemap.xml are each requested at most once, whether the fetch succeeds
\* or fails.
C18_NoRetries ==
  /\ Len(requests) <= 3
  /\ \A resource \in {"main", "robots.txt", "sitemap.xml"} : Requested(resource) <= 1
  /\ \A i \in 1..Len(requests) :
       requests[i].resource \in {"main", "robots.txt", "sitemap.xml"}
  /\ (pc = "done" /\ net[1].mainFails) => Len(requests) = 1

C18_Witness ==
  /\ pc = "done"
  /\ net[1].robots.failed /\ net[1].sitemap.failed
  /\ [i \in 1..Len(requests) |-> requests[i].resource] = <<"main", "robots.txt", "sitemap.xml">>

LengthBand(len, low, high) ==
  IF len = 0 THEN "critical"
  ELSE IF len \in low..high THEN "passed"
  ELSE "warning"

\* C19: the title finding is critical when the trimmed title is absent or
\* empty, warning when its length is below 30 or above 60 and passed for 30
\* to 60 characters; the description finding is critical when absent or
\* empty, warning below 120 or above 160 and passed for 120 to 160.
C19_LengthBands ==
  (Returned /\ response # Null) =>
    /\ thrown = "none" => HasId(R.checks, "meta-title") /\ HasId(R.checks, "meta-desc")
    /\ HasId(R.checks, "meta-title") =>
         StatusOf(R.checks, "meta-title") = LengthBand(response[1].title, 30, 60)
    /\ HasId(R.checks, "meta-desc") =>
         StatusOf(R.checks, "meta-desc") = LengthBand(response[1].description, 120, 160)

C19_Witness ==
  /\ Returned /\ response # Null
  /\ response[1].title = 60
  /\ StatusOf(R.checks, "meta-title") = "passed"
  /\ StatusOf(R.checks, "meta-desc") = "passed"

FindingOf(cs, id) == CHOOSE c \in {cs[i] : i \in 1..Len(cs)} : c.id = id

WithoutAlt(imgs) == {i \in 1..Len(imgs) : ~imgs[i].alt}

\* C20: the image alt finding is info for a page without images; when images
\* lack alt text it is critical if more than 5 lack it and warning for 1 to
\* 5, and its details are the first min(5, missing) of those images in
\* document order; it is passed when every image has alt text.
C20_ImageAlt ==
  (Returned /\ response # Null /\ HasId(R.checks, "img-alt")) =>
    LET imgs == response[1].images
        missing == WithoutAlt(imgs)
        f == FindingOf(R.checks, "img-alt")
    IN /\ f.status = IF Len(imgs) = 0 THEN "info"
                     ELSE IF missing = {} THEN "passed"
                     ELSE IF Cardinality(missing) > 5 THEN "critical"
                     ELSE "warning"
       /\ Len(f.details) = Min(5, Cardinality(missing))
       /\ \A k \in 1..Len(f.details) :
            /\ f.details[k] \in missing
            /\ Cardinality({j \in missing : j < f.details[k]}) = k - 1

C20_Witness ==
  /\ Returned /\ response # Null
  /\ Len(response[1].images) = 10
  /\ Cardinality(WithoutAlt(response[1].images)) = 6
  /\ FindingOf(R.checks, "img-alt").status = "critical"
  /\ Len(FindingOf(R.checks, "img-alt").details) = 5

Skips(levels) == {i \in 1..(Len(levels) - 1) : levels[i + 1] > levels[i] + 1}

\* C21: the heading hierarchy finding is warning when the page has no
\* heading, warning when some heading is more than one level deeper than
\* the heading before it, and passed otherwise: a step back up of any size
\* and a first heading of any level are accepted.
C21_HeadingHierarchy ==
  (Returned /\ response # Null /\ HasId(R.checks, "heading-hierarchy")) =>
    LET levels == response[1].headings
    IN StatusOf(R.checks, "heading-hierarchy") =
         IF levels = <<>> \/ Skips(levels) # {} THEN "warning" ELSE "passed"

C21_Witness ==
  /\ Returned /\ response # Null /\ thrown = "none"
  /\ response[1].headings = <<3, 1, 2>>
  /\ StatusOf(R.checks, "heading-hierarchy") = "passed"

MarkedLazy(imgs) == {i \in 1..Len(imgs) : imgs[i].lazy}

\* C22: for a page without images no lazy-loading finding is emitted; with
\* more than 5 images of which none is marked loading="lazy" the finding is
\* warning; in every other case with at least one image it is passed.
C22_LazyLoading ==
  (Returned /\ response # Null /\ HasId(R.checks, "img-alt")) =>
    LET imgs == response[1].images
    IN IF Len(imgs) = 0 THEN ~HasId(R.checks, "img-lazy")
       ELSE /\ HasId(R.checks, "img-lazy")
            /\ StatusOf(R.checks, "img-lazy") =
                 IF Len(imgs) > 5 /\ MarkedLazy(imgs) = {} THEN "warning" ELSE "passed"

C22_Witness ==
  /\ Returned /\ response # Null /\ thrown = "none"
  /\ Len(response[1].images) = 5
  /\ MarkedLazy(response[1].images) = {}
  /\ StatusOf(R.checks, "img-lazy") = "passed"

\* C23: the response time finding is critical when the time measured for the
\* main fetch is above 3000 ms, warning when it is above 1500 ms and at most
\* 3000 ms, and passed when it is at most 1500 ms.
C23_ResponseTimeBands ==
  (Returned /\ response # Null /\ HasId(R.checks, "response-time")) =>
    LET ms == response[1].elapsed
    IN /\ ms <= 1500 => StatusOf(R.checks, "response-time") = "passed"
       /\ (ms > 1500 /\ ms <= 3000) => StatusOf(R.checks, "response-time") = "warning"
       /\ ms > 3000 => StatusOf(R.checks, "response-time") = "critical"

C23_Witness ==
  /\ Returned /\ response # Null /\ thrown = "none"
  /\ response[1].elapsed = 3000
  /\ StatusOf(R.checks, "response-time") = "warning"

\* C24: the structured data finding is warning for a page without JSON-LD
\* blocks and passed for one or more blocks whatever they hold; no block
\* makes the check raise, changes the severity or keeps the later checks
\* from running.
C24_StructuredDataContained ==
  (Returned /\ response # Null /\ response[1].isString) =>
    /\ HasId(R.checks, "structured-data")
    /\ StatusOf(R.checks, "structured-data") =
         IF response[1].jsonLd = <<>> THEN "warning" ELSE "passed"
    /\ ~HasId(R.checks, "fetch")
    /\ \A id \in {"robots-meta", "robots-txt", "sitemap"} \cup AfterBattery :
         HasId(R.checks, id)

TopLevel(levels) == {i \in 1..Len(levels) : levels[i] = 1}

\* C25: the H1 finding is critical for a page without an H1 element, warning
\* for more than one, with one detail entry per H1, and passed for exactly
\* one.
C25_SingleH1 ==
  (Returned /\ response # Null /\ HasId(R.checks, "h1")) =>
    LET count == Cardinality(TopLevel(response[1].headings))
        f == FindingOf(R.checks, "h1")
    IN /\ count = 0 => f.status = "critical"
       /\ count = 1 => f.status = "passed"
       /\ count > 1 => f.status = "warning" /\ Len(f.details) = count

C25_Witness ==
  /\ Returned /\ response # Null /\ thrown = "none"
  /\ Cardinality(TopLevel(response[1].headings)) = 2
  /\ FindingOf(R.checks, "h1").status = "warning"
  /\ Len(FindingOf(R.checks, "h1").details) = 2

\* the element each presence check looks for, by check identifier
PresenceChecks ==
  {<<"canonical", "canonical">>, <<"lang", "lang">>, <<"og-title", "ogTitle">>,
   <<"og-image", "ogImage">>, <<"og-desc", "ogDesc">>}

\* C26: the canonical, language, Open Graph title, image and description
\* findings are passed when the element is there and warning when it is not;
\* the Twitter card finding is passed when the card is there and info when
\* it is not, so that a missing card counts for nothing in the score.
C26_PresenceChecks ==
  (Returned /\ response # Null) =>
    /\ \A c \in PresenceChecks :
         HasId(R.checks, c[1]) =>
           StatusOf(R.checks, c[1]) = IF response[1][c[2]] THEN "passed" ELSE "warning"
    /\ HasId(R.checks, "twitter-card") =>
         IF response[1].twitterCard
           THEN StatusOf(R.checks, "twitter-card") = "passed"
           ELSE /\ StatusOf(R.checks, "twitter-card") = "info"
                /\ R.score = Min(Score(Without(R.checks, "twitter-card")), 100)

C26_Witness ==
  /\ Returned /\ response # Null /\ thrown = "none"
  /\ ~response[1].twitterCard
  /\ StatusOf(R.checks, "twitter-card") = "info"
  /\ StatusOf(R.checks, "og-image") = "warning"
  /\ R.score \in 1..99

Started(resource) == \E i \in 1..Len(requests) : requests[i].resource = resource

BeforeTechnical ==
  {"meta-title", "meta-desc", "canonical", "lang", "h1", "heading-hierarchy",
   "word-count", "img-alt"}

\* C27: within one call the robots.txt fetch is started only after the main
\* fetch has succeeded and the meta, content and image findings have been
\* emitted; the sitemap.xml fetch is started only after the robots.txt fetch
\* has settled and its finding has been emitted; when the main fetch fails,
\* or the audit fails on its response, no auxiliary fetch is started.
C27_FetchOrder ==
  /\ Started("robots.txt") =>
       /\ response # Null
       /\ \A id \in BeforeTechnical : HasId(checks, id)
       /\ response[1].images # <<>> => HasId(checks, "img-lazy")
  /\ Started("sitemap.xml") =>
       /\ Started("robots.txt")
       /\ robotsRes # Null
       /\ HasId(checks, "robots-txt")
  /\ (net # Null /\ net[1].mainFails) => ~Started("robots.txt") /\ ~Started("sitemap.xml")
  /\ HasId(checks, "fetch") => ~Started("robots.txt") /\ ~Started("sitemap.xml")

C27_Witness ==
  /\ pc = "awaitSitemap"
  /\ Started("sitemap.xml")
  /\ HasId(checks, "img-lazy") /\ HasId(checks, "robots-txt")
  /\ ~HasId(checks, "sitemap")

\* C28: a report whose only finding is the fetch failure has the summary
\* critical 1, warnings 0, passed 0, info 0, the score 0 and the grade F; no
\* report has an empty finding list, and a report has the score 0 exactly
\* when none of its findings is passed or warning.
C28_FailureValues ==
  Returned =>
    /\ Ids(R.checks) = <<"fetch">> =>
         /\ R.summary = [critical |-> 1, warnings |-> 0, passed |-> 0, info |-> 0]
         /\ R.score = 0
         /\ R.grade = "F"
    /\ R.checks # <<>>
    /\ R.score = 0 <=> (Tally(R.checks, "passed") = 0 /\ Tally(R.checks, "warning") = 0)

C28_Witness ==
  /\ Returned
  /\ net[1].mainFails
  /\ Ids(R.checks) = <<"fetch">>
  /\ R.score = 0 /\ R.grade = "F"

\* C29: meta.responseTimeMs is the time of the main fetch alone: it is set
\* when the main fetch completes, before an auxiliary fetch starts, and a
\* slow or timed-out robots.txt or sitemap.xml fetch does not change it; the
\* response time and HTML size findings of a report have the severity the
\* thresholds give for the responseTimeMs and htmlSizeKb of that report.
C29_ResponseTimeOfMainFetch ==
  /\ (response # Null /\ (Started("robots.txt") \/ pc = "done")) =>
       meta.responseTimeMs = response[1].elapsed
  /\ (Returned /\ response # Null) => R.meta.responseTimeMs = response[1].elapsed
  /\ (Returned /\ HasId(R.checks, "response-time")) =>
       StatusOf(R.checks, "response-time") =
         IF R.meta.responseTimeMs > 3000 THEN "critical"
         ELSE IF R.meta.responseTimeMs > 1500 THEN "warning"
         ELSE "passed"
  /\ (Returned /\ HasId(R.checks, "page-size")) =>
       StatusOf(R.checks, "page-size") =
         IF R.meta.htmlSizeKb > 500 THEN "warning" ELSE "passed"

C29_Witness ==
  /\ Returned /\ thrown = "none"
  /\ robotsRes = Some(AuxFailed) /\ smRes = Some(AuxFailed)
  /\ R.meta.responseTimeMs = 3001
  /\ StatusOf(R.checks, "response-time") = "critical"
  /\ R.meta.htmlSizeKb = 501
  /\ StatusOf(R.checks, "page-size") = "warning"

Padded == <<" ">> \o HTTP_SCHEME \o <<"a", ".", "c", " ">>

\* C30: POST /api/audit answers 400 without calling auditUrl when the url
\* field is missing or empty, or when the trimmed url, prefixed with
\* 'https://' unless it begins with 'http://' or 'https://', does not parse
\* as a URL; otherwise it calls auditUrl exactly once, with a url that
\* begins with 'http://' or 'https://', and answers with that report; an
\* exception raised while handling is answered with 500 and does not leave
\* the handler.
C30_HandlerGating ==
  http # Null =>
    LET h == http[1]
        b == h.request
        raises == b.kind # "object" \/ (~Falsy(b.url) /\ b.url.type # "string")
        empty == b.kind = "object" /\ Falsy(b.url)
        unparseable == /\ b.kind = "object" /\ ~Falsy(b.url) /\ b.url.type = "string"
                       /\ ~ParsesAsUrl(TargetUrl(b.url.text))
    IN /\ h.status \in {0, 200, 400, 500}
       /\ (empty \/ unparseable) => h.status = 400 /\ h.calls = 0 /\ pc = "idle"
       /\ raises => h.status = 500 /\ h.calls = 0 /\ pc = "idle"
       /\ ~(empty \/ unparseable \/ raises) =>
            /\ h.calls = 1
            /\ pc # "idle"
            /\ StartsWith(input, HTTP_SCHEME) \/ StartsWith(input, HTTPS_SCHEME)
            /\ input = TargetUrl(b.url.text) /\ url = input
            /\ Requested("main") = 1
            /\ h.status \in {0, 200}
            /\ h.status = 200 => Returned /\ h.sent = report /\ R.url = input

C30_Witness ==
  /\ http # Null
  /\ http[1].request.url.text = Padded
  /\ http[1].status = 200
  /\ http[1].sent = report
  /\ Returned /\ R.url = Trim(Padded) /\ Len(R.checks) = 22

====
